---- MODULE Spec2Model ----
(***************************************************************************)
(* Session registry and action dispatcher of the Bay Club booking server.  *)
(*                                                                         *)
(*   server/index.ts            (src/unnamed/part_003)  session registry   *)
(*   server/tools/booking-tool.ts                       action dispatcher  *)
(*   server/booking/stagehand-bot.ts (second half of                       *)
(*                  src/client/src/hooks/useChat.ts)    automation driver  *)
(*                                                                         *)
(* Node runs every handler to its next await without interruption, so an   *)
(* action of the model is one handler from an await to the next one.       *)
(***************************************************************************)
EXTENDS Integers, Sequences, FiniteSets, TLC

\* ------------------------------------------------------------------ bounds
MaxSockets == 2      \* connections opened in one run
MaxMsgs == 2         \* chat messages sent in one run
MaxLen == 5          \* characters of a time string given to timeMatches
MaxSlots == 2        \* time slot elements on the page of one driver call
MaxButtons == 2      \* button elements on the confirmation page
MaxCalls == 2        \* tool calls in flight on one BookingToolManager
MaxLog == 4          \* driver calls kept in the log of one initialized period
MaxCtx == 3          \* browser contexts one BayClubBot opens in its life
MaxCloses == 2       \* close() calls in a row on one BayClubBot
MaxTimes == 4        \* labels collected in availableTimes
MaxLogins == 2       \* login() calls on one BayClubBot

\* --------------------------------------------------------- program constants
IdleWindow == 300000        \* ms: setTimeout(..., 5 * 60 * 1000)

SessionIds == {"sA", "sB"}  \* socket.handshake.auth.sessionId of the clients
NoSession == "none"          \* Map.get() === undefined
NoSocket == 0                \* socketId: null
NoObj == 0

\* the arguments the agent can pass to the book_tennis_court tool
Actions == {"query_times", "book"}
Sports == {"tennis", "pickleball"}
Dates == {"tomorrow", "someday"}
NoTime == "undefined"                       \* time is optional in the schema
Times == {NoTime, "2:00 PM"}
Companion == "Samuel Wang"
NullDate == -1
NoRequest == [action |-> "none", sport |-> "none", date |-> "none", time |-> NoTime]

VARIABLES
  sessions,         \* Map<string, session>: session id -> session object, NoObj when absent
  socketToSession,  \* Map<string, string>: socket id -> session id
  objs,             \* the session objects ever built, each with its BookingAgent
  socks,            \* the sockets ever connected; socket.id is the index
  delivered,        \* per session id, the chat messages emitted so far to sockets that
                    \* authenticated with it (what its client has been sent)
  sent,             \* inbound 'message' events so far
  nextMsg,          \* per session id, the number of the next response: responses are
                    \* numbered in the order agent.chat() returns them
  tool,             \* one BookingToolManager with its BayClubBot, and the call it is serving
  bot,              \* one BayClubBot call (bookCourt or getAvailableTimes) on one page
  cmp,              \* one timeMatches(userTime, pageTime) call
  calls,            \* per tool call in flight on the manager, where it is in ensureInitialized()
  env               \* process.env: which of the three credentials are set

reg == <<sessions, socketToSession, objs, socks, delivered, sent, nextMsg>>
vars == <<reg, tool, bot, cmp, calls, env>>

Sockets == 1..MaxSockets

\* ------------------------------------------------------------------ helpers

\* io.sockets.sockets.get(id) && socket.connected
Connected(k) == k \in DOMAIN socks /\ socks[k].connected

\* socket.emit(ev, msg) for each msg of ms, in order, on socket k
EmitAll(ss, k, ms) == [ss EXCEPT ![k].rx = @ \o ms]

\* the same emits, as the client behind socket k sees them
Deliver(k, ms) == [delivered EXCEPT ![socks[k].sid] = @ \o ms]

\* sendToSession(sessionId, 'message', data): the socket the message is emitted
\* on, NoSocket when it returns false
SendTarget(sid) ==
  IF sessions[sid] = NoObj THEN NoSocket
  ELSE IF objs[sessions[sid]].socketId = NoSocket THEN NoSocket
  ELSE IF Connected(objs[sessions[sid]].socketId) THEN objs[sessions[sid]].socketId
  ELSE NoSocket

\* responseMsg of a 'message' handler of session object o
ResponseMsg(o) == [from |-> "assistant", of |-> objs[o].sid, id |-> nextMsg[objs[o].sid]]

\* socket.emit('error', 'Session not found')
ErrorEvent == [from |-> "error", of |-> NoSession, id |-> 0]

\* process.env as the server can be started with, and with all three set
Envs == [apiKey : BOOLEAN, username : BOOLEAN, password : BOOLEAN]
FullEnv == [apiKey |-> TRUE, username |-> TRUE, password |-> TRUE]

\* !(!apiKey || !username || !password)
HasCredentials(e) == e.apiKey /\ e.username /\ e.password

\* the client's status line: its initial state, what its 'disconnect' and
\* 'ready' handlers set, and the texts the server emits as 'status'
Connecting == "Connecting..."
Reconnecting == "Disconnected - Reconnecting..."
Ready == "Ready"
InitializingAgent == "Initializing booking agent..."
Processing == "Processing your request..."

\* socket.emit('error', ...) of a connection that gets no session
NoIdError == [from |-> "error", of |-> NoSession, id |-> 1]
CredentialsError == [from |-> "error", of |-> NoSession, id |-> 2]

\* a socket; status is the status line of the client behind it
NewSocket(sid, st, o, rx, status) ==
  [sid |-> sid, st |-> st, connected |-> TRUE, agent |-> o, rx |-> rx, status |-> status,
   flushed |-> Len(rx),   \* "Delivering N pending messages to session"
   timer |-> "none", left |-> 0, cur |-> NoObj]

NewSessionObj(sid) ==
  [sid |-> sid, socketId |-> NoSocket, pendingMessages |-> <<>>,
   isProcessing |-> FALSE, initialized |-> FALSE, inflight |-> 0]

\* a BookingToolManager that serves no call: new BayClubBot, initialized = false
IdleTool(cal) ==
  [initialized |-> FALSE, calendarInitialized |-> cal, stagehand |-> "null",
   isLoggedIn |-> FALSE, pc |-> "idle", req |-> NoRequest, log |-> <<>>,
   booked |-> FALSE, afterBooking |-> FALSE, result |-> "none"]

RegInit ==
  /\ sessions = [s \in SessionIds |-> NoObj]
  /\ socketToSession = [k \in Sockets |-> NoSession]
  /\ objs = <<>>
  /\ socks = <<>>
  /\ delivered = [s \in SessionIds |-> <<>>]
  /\ sent = 0
  /\ nextMsg = [s \in SessionIds |-> 1]

\* no driver call and no comparison is running
NoCall == [op |-> "none", pc |-> "idle"]
NoCmp == [done |-> FALSE]

\* str contains the characters of sub in a row
Includes(str, sub) ==
  \E i \in 1 .. Len(str) :
    /\ i + Len(sub) - 1 <= Len(str)
    /\ SubSeq(str, i, i + Len(sub) - 1) = sub

\* the sequences over S of at most n elements
SeqsUpTo(S, n) == UNION {[1 .. k -> S] : k \in 0 .. n}

\* the tool calls that can be in flight together, and none of them running
Callers == 1 .. MaxCalls
NoCalls == [c \in Callers |-> "none"]

Init ==
  /\ RegInit
  /\ tool = IdleTool(FALSE)
  /\ bot = NoCall
  /\ cmp = NoCmp
  /\ calls = NoCalls
  /\ env \in Envs

\* ------------------------------------------------------------- connection

\* a resume branch that leaves out sess.pendingMessages = []
ResumeKeepsQueue(sid) ==
  LET k == Len(socks) + 1
      o == sessions[sid]
      old == objs[o].socketId
      pend == objs[o].pendingMessages
  IN /\ Len(socks) < MaxSockets
     /\ sessions[sid] # NoObj
     /\ socketToSession' =
          [j \in Sockets |-> IF j = k THEN sid
                             ELSE IF j = old THEN NoSession
                             ELSE socketToSession[j]]
     /\ objs' = [objs EXCEPT ![o].socketId = k]
     /\ socks' = Append(socks, NewSocket(sid, "open", NoObj, pend,
                                       IF objs[o].isProcessing THEN Processing ELSE Ready))
     /\ delivered' = [delivered EXCEPT ![sid] = @ \o pend]
     /\ UNCHANGED <<sessions, sent, nextMsg, tool, bot, cmp, calls, env>>

\* io.on('connection'), session found: the resume branch, then the handlers
\* are registered. No await: one step.
Resume(sid) ==
  LET k == Len(socks) + 1
      o == sessions[sid]
      old == objs[o].socketId
      pend == objs[o].pendingMessages
  IN /\ Len(socks) < MaxSockets
     /\ sessions[sid] # NoObj
     /\ socketToSession' =
          [j \in Sockets |-> IF j = k THEN sid
                             ELSE IF j = old THEN NoSession
                             ELSE socketToSession[j]]
     /\ objs' = [objs EXCEPT ![o].socketId = k, ![o].pendingMessages = <<>>]
     /\ socks' = Append(socks, NewSocket(sid, "open", NoObj, pend,
                                       IF objs[o].isProcessing THEN Processing ELSE Ready))
     /\ delivered' = [delivered EXCEPT ![sid] = @ \o pend]
     /\ UNCHANGED <<sessions, sent, nextMsg, tool, bot, cmp, calls, env>>

\* io.on('connection') without a session id: error, socket.disconnect(), return
\* before any handler is registered
ConnectNoId ==
  /\ Len(socks) < MaxSockets
  /\ socks' = Append(socks, [NewSocket(NoSession, "bare", NoObj, <<NoIdError>>, Connecting)
                               EXCEPT !.connected = FALSE])
  /\ UNCHANGED <<sessions, socketToSession, objs, delivered, sent, nextMsg, tool, bot, cmp, calls, env>>

\* a new-session branch that builds the agent before it looks at the credentials
ConnectNoCredentialsBuildsAgent(sid) ==
  /\ Len(socks) < MaxSockets
  /\ sessions[sid] = NoObj
  /\ ~HasCredentials(env)
  /\ objs' = Append(objs, NewSessionObj(sid))
  /\ socks' = Append(socks, NewSocket(sid, "bare", NoObj, <<CredentialsError>>, Connecting))
  /\ UNCHANGED <<sessions, socketToSession, delivered, sent, nextMsg, tool, bot, cmp, calls, env>>

\* io.on('connection'), no session, a credential missing: error and return
\* before any handler is registered; the socket stays connected
ConnectNoCredentials(sid) ==
  /\ Len(socks) < MaxSockets
  /\ sessions[sid] = NoObj
  /\ ~HasCredentials(env)
  /\ socks' = Append(socks, NewSocket(sid, "bare", NoObj, <<CredentialsError>>, Connecting))
  /\ UNCHANGED <<sessions, socketToSession, objs, delivered, sent, nextMsg, tool, bot, cmp, calls, env>>

\* io.on('connection'), no session: new BookingAgent, then the handler is
\* suspended in await agent.initialize().
ConnectNew(sid) ==
  /\ Len(socks) < MaxSockets
  /\ sessions[sid] = NoObj
  /\ HasCredentials(env)
  /\ objs' = Append(objs, NewSessionObj(sid))
  /\ socks' = Append(socks, NewSocket(sid, "init", Len(objs) + 1, <<>>, InitializingAgent))
  /\ UNCHANGED <<sessions, socketToSession, delivered, sent, nextMsg, tool, bot, cmp, calls, env>>

\* agent.initialize() resolved: the session is stored and the handlers are
\* registered (whether or not the socket is still connected).
InitDone(k) ==
  /\ k \in DOMAIN socks
  /\ socks[k].st = "init"
  /\ objs' = [objs EXCEPT ![socks[k].agent].socketId = k]
  /\ sessions' = [sessions EXCEPT ![socks[k].sid] = socks[k].agent]
  /\ socketToSession' = [socketToSession EXCEPT ![k] = socks[k].sid]
  /\ socks' = [socks EXCEPT ![k].st = "open", ![k].agent = NoObj,
                            ![k].status = IF socks[k].connected THEN Ready ELSE @]
  /\ UNCHANGED <<delivered, sent, nextMsg, tool, bot, cmp, calls, env>>

\* --------------------------------------------------------------- messages

\* socket.on('get_pending'): the request names the session id itself
GetPending(k, req) ==
  /\ Connected(k)
  /\ socks[k].st = "open"
  /\ sessions[req] # NoObj
  /\ objs[sessions[req]].pendingMessages # <<>>
  /\ socks' = EmitAll(socks, k, objs[sessions[req]].pendingMessages)
  /\ delivered' = Deliver(k, objs[sessions[req]].pendingMessages)
  /\ objs' = [objs EXCEPT ![sessions[req]].pendingMessages = <<>>]
  /\ UNCHANGED <<sessions, socketToSession, sent, nextMsg, tool, bot, cmp, calls, env>>

\* socket.on('message') up to await sess.agent.chat(data.message)
Message(k) ==
  /\ Connected(k)
  /\ socks[k].st = "open"
  /\ sent < MaxMsgs
  /\ sent' = sent + 1
  /\ IF socketToSession[k] = NoSession \/ sessions[socks[k].sid] = NoObj
     THEN /\ socks' = EmitAll(socks, k, <<ErrorEvent>>)
          /\ UNCHANGED objs
     ELSE /\ objs' = [objs EXCEPT ![sessions[socks[k].sid]].isProcessing = TRUE,
                                  ![sessions[socks[k].sid]].inflight = @ + 1]
          /\ UNCHANGED socks
  /\ UNCHANGED <<sessions, socketToSession, delivered, nextMsg, tool, bot, cmp, calls, env>>

\* the agent calls the tool once: out is what the call did to the browser
\*   "kept"    ensureInitialized() succeeded and the browser stays open
\*   "closed"  bookCourt returned true and closeBrowser() ran
ToolCall(o, out) ==
  /\ o \in DOMAIN objs
  /\ objs[o].inflight > 0
  /\ out \in {"kept", "closed"}
  /\ objs' = [objs EXCEPT ![o].initialized = (out = "kept")]
  /\ objs' # objs
  /\ UNCHANGED <<sessions, socketToSession, socks, delivered, sent, nextMsg, tool, bot, cmp, calls, env>>

\* agent.chat() resolved: isProcessing = false, then the response goes to the
\* session's current socket or to the pending queue of the handler's session
ChatDone(o) ==
  /\ o \in DOMAIN objs
  /\ objs[o].inflight > 0
  /\ nextMsg' = [nextMsg EXCEPT ![objs[o].sid] = @ + 1]
  /\ IF SendTarget(objs[o].sid) # NoSocket
     THEN /\ socks' = EmitAll(socks, SendTarget(objs[o].sid), <<ResponseMsg(o)>>)
          /\ delivered' = Deliver(SendTarget(objs[o].sid), <<ResponseMsg(o)>>)
          /\ objs' = [objs EXCEPT ![o].isProcessing = FALSE, ![o].inflight = @ - 1]
     ELSE /\ objs' = [objs EXCEPT ![o].isProcessing = FALSE, ![o].inflight = @ - 1,
                                  ![o].pendingMessages = Append(@, ResponseMsg(o))]
          /\ UNCHANGED <<socks, delivered>>
  /\ UNCHANGED <<sessions, socketToSession, sent, tool, bot, cmp, calls, env>>

\* ------------------------------------------------------------- disconnect

\* the transport closes; socket.on('disconnect') runs if it was registered.
\* What the closed socket was sent stays in delivered.
Disconnect(k) ==
  /\ Connected(k)
  /\ IF socks[k].st = "open" /\ socketToSession[k] # NoSession
     THEN /\ socketToSession' = [socketToSession EXCEPT ![k] = NoSession]
          /\ IF sessions[socketToSession[k]] # NoObj
             THEN /\ objs' = [objs EXCEPT ![sessions[socketToSession[k]]].socketId = NoSocket]
                  /\ socks' = [socks EXCEPT ![k].connected = FALSE, ![k].rx = <<>>, ![k].flushed = 0,
                                            ![k].status = Reconnecting,
                                            ![k].timer = "armed", ![k].left = IdleWindow]
             ELSE /\ socks' = [socks EXCEPT ![k].connected = FALSE, ![k].rx = <<>>, ![k].flushed = 0,
                                            ![k].status = Reconnecting]
                  /\ UNCHANGED objs
     ELSE /\ socks' = [socks EXCEPT ![k].connected = FALSE, ![k].rx = <<>>, ![k].flushed = 0,
                                            ![k].status = Reconnecting]
          /\ UNCHANGED <<socketToSession, objs>>
  /\ UNCHANGED <<sessions, delivered, sent, nextMsg, tool, bot, cmp, calls, env>>

\* a callback that does not look at currentSess.socketId
AbandonedAnyTransport(k) ==
  sessions[socks[k].sid] # NoObj

\* the callback of socket k's timer finds an abandoned session
Abandoned(k) ==
  /\ sessions[socks[k].sid] # NoObj
  /\ objs[sessions[socks[k].sid]].socketId = NoSocket

\* the setTimeout callback of socket k's disconnect handler
TimerFire(k) ==
  /\ k \in DOMAIN socks
  /\ socks[k].timer = "armed"
  /\ socks[k].left = 0
  /\ IF Abandoned(k)
     THEN IF objs[sessions[socks[k].sid]].initialized
          THEN \* await currentSess.agent.cleanup() -> await this.bot.close()
               /\ socks' = [socks EXCEPT ![k].timer = "cleaning",
                                         ![k].cur = sessions[socks[k].sid]]
               /\ UNCHANGED sessions
          ELSE /\ socks' = [socks EXCEPT ![k].timer = "fired"]
               /\ sessions' = [sessions EXCEPT ![socks[k].sid] = NoObj]
     ELSE /\ socks' = [socks EXCEPT ![k].timer = "fired"]
          /\ UNCHANGED sessions
  /\ UNCHANGED <<socketToSession, objs, delivered, sent, nextMsg, tool, bot, cmp, calls, env>>

\* bot.close() settled (ok or thrown): sessions.delete(sessId)
CleanupDone(k, ok) ==
  /\ k \in DOMAIN socks
  /\ socks[k].timer = "cleaning"
  /\ socks' = [socks EXCEPT ![k].timer = "fired", ![k].cur = NoObj]
  /\ objs' = [objs EXCEPT ![socks[k].cur].initialized = IF ok THEN FALSE ELSE @]
  /\ sessions' = [sessions EXCEPT ![socks[k].sid] = NoObj]
  /\ UNCHANGED <<socketToSession, delivered, sent, nextMsg, tool, bot, cmp, calls, env>>

\* IdleWindow ms pass: every armed timer becomes due; a due timer runs before
\* more time passes
Tick ==
  /\ \E k \in DOMAIN socks : socks[k].timer = "armed"
  /\ \A k \in DOMAIN socks : socks[k].timer = "armed" => socks[k].left > 0
  /\ socks' = [k \in DOMAIN socks |->
       IF socks[k].timer = "armed" THEN [socks[k] EXCEPT !.left = @ - IdleWindow]
       ELSE socks[k]]
  /\ UNCHANGED <<sessions, socketToSession, objs, delivered, sent, nextMsg, tool, bot, cmp, calls, env>>

Next ==
  \/ ConnectNoId
  \/ \E sid \in SessionIds : ConnectNoCredentials(sid)
  \/ \E sid \in SessionIds : Resume(sid)
  \/ \E sid \in SessionIds : ConnectNew(sid)
  \/ \E k \in Sockets : InitDone(k)
  \/ \E k \in Sockets, req \in SessionIds : GetPending(k, req)
  \/ \E k \in Sockets : Message(k)
  \/ \E o \in DOMAIN objs, out \in {"kept", "closed"} : ToolCall(o, out)
  \/ \E o \in DOMAIN objs : ChatDone(o)
  \/ \E k \in Sockets : Disconnect(k)
  \/ \E k \in Sockets : TimerFire(k)
  \/ \E k \in Sockets, ok \in BOOLEAN : CleanupDone(k, ok)
  \/ Tick

Spec == Init /\ [][Next]_vars

\* What the event loop and the clock guarantee: a pending await settles, time
\* passes, a due timer callback runs. Clients need not send or come back.
Fairness ==
  /\ \A k \in Sockets : WF_vars(InitDone(k))
  /\ \A o \in Sockets : WF_vars(ChatDone(o))
  /\ \A k \in Sockets : WF_vars(TimerFire(k))
  /\ \A k \in Sockets : WF_vars(\E ok \in BOOLEAN : CleanupDone(k, ok))
  /\ WF_vars(Tick)

SpecLive == Spec /\ Fairness

\* ------------------------------------------------- the book_tennis_court tool
\* One BookingToolManager serving one call at a time; tool.pc names the driver
\* or calendar call the tool function is awaiting, tool.log the calls it has
\* made for the current request.

\* dateParser.parse(date): days from the base date, NullDate for null
ParseDate(d) ==
  CASE d = "today" -> 0
    [] d = "tomorrow" -> 1
    [] OTHER -> NullDate

Call(op) == [op |-> op, args |-> <<>>]

\* calendarService.addCourtBooking(sport, parsedDate, time, 'Samuel Wang')
CalendarCall(r) ==
  [op |-> "addCourtBooking", args |-> <<r.sport, ParseDate(r.date), r.time, Companion>>]

Logged(t, c) == [t EXCEPT !.log = Append(@, c)]

\* the tool function returns the string r
Return(t, r) == [t EXCEPT !.pc = "idle", !.result = r]

\* a tool function without the catch: the rejection reaches the caller
ThrowPropagates(t) == [t EXCEPT !.pc = "idle", !.result = "exception"]

\* catch (error): return `Error: ...`
Throw(t) == Return(t, "error")

\* await this.bot.navigateToBooking(sport, dayOfWeek)
BotNavigate(t) ==
  IF t.stagehand = "null" \/ ~t.isLoggedIn THEN Throw(t)
  ELSE [Logged(t, Call("navigateToBooking")) EXCEPT !.pc = "navigate"]

\* the tool function from the return of ensureInitialized() to its next await
AfterEnsure(t) ==
  IF ParseDate(t.req.date) = NullDate THEN Return(t, "dateError")
  ELSE IF t.req.action = "query_times" THEN BotNavigate(t)
  ELSE IF t.req.time = NoTime THEN Return(t, "timeRequired")
  ELSE BotNavigate(t)

\* the tool function after closeBrowser(): the calendar, then the result
AfterClose(t) ==
  IF t.calendarInitialized
  THEN [Logged(t, CalendarCall(t.req)) EXCEPT !.pc = "calendar"]
  ELSE Return(t, "booked")

\* func({action, sport, date, time}) up to its first await
Invoke(a, s, d, tm) ==
  /\ tool.pc = "idle"
  /\ tool' =
       LET t == [tool EXCEPT !.req = [action |-> a, sport |-> s, date |-> d, time |-> tm],
                             !.log = <<>>, !.booked = FALSE, !.result = "none",
                             \* the request follows a booking that closed the browser
                             !.afterBooking = tool.booked /\ tool.stagehand = "null"]
       IN IF ~t.initialized
          THEN [Logged(t, Call("init")) EXCEPT !.stagehand = "set", !.pc = "init"]
          ELSE AfterEnsure(t)
  /\ UNCHANGED <<reg, bot, cmp, calls, env>>

\* bot.init(): await this.stagehand.init() settled; then bot.login()
InitSettles(ok) ==
  /\ tool.pc = "init"
  /\ tool' = IF ok THEN [Logged(tool, Call("login")) EXCEPT !.pc = "login"]
             ELSE Throw(tool)
  /\ UNCHANGED <<reg, bot, cmp, calls, env>>

\* an ensureInitialized() that sets the flag before login() is known to succeed
LoginSettlesFlagFirst(ok) ==
  /\ tool.pc = "login"
  /\ tool' = IF ok THEN AfterEnsure([tool EXCEPT !.isLoggedIn = TRUE, !.initialized = TRUE])
             ELSE Throw([tool EXCEPT !.initialized = TRUE])
  /\ UNCHANGED <<reg, bot, cmp, calls, env>>

\* bot.login() settled; then this.initialized = true and the rest of func
LoginSettles(ok) ==
  /\ tool.pc = "login"
  /\ tool' = IF ok THEN AfterEnsure([tool EXCEPT !.isLoggedIn = TRUE, !.initialized = TRUE])
             ELSE Throw(tool)
  /\ UNCHANGED <<reg, bot, cmp, calls, env>>

\* bot.navigateToBooking() settled; then getAvailableTimes() or bookCourt(time)
NavigateSettles(ok) ==
  /\ tool.pc = "navigate"
  /\ tool' = IF ~ok THEN Throw(tool)
             ELSE IF tool.req.action = "query_times"
             THEN [Logged(tool, Call("getAvailableTimes")) EXCEPT !.pc = "getTimes"]
             ELSE [Logged(tool, Call("bookCourt")) EXCEPT !.pc = "bookCourt"]
  /\ UNCHANGED <<reg, bot, cmp, calls, env>>

\* bot.getAvailableTimes() settled
GetTimesSettles(out) ==
  /\ tool.pc = "getTimes"
  /\ tool' = CASE out = "empty" -> Return(tool, "noCourts")
               [] out = "some" -> Return(tool, "times")
               [] out = "throw" -> Throw(tool)
  /\ UNCHANGED <<reg, bot, cmp, calls, env>>

\* a tool function that goes on to the calendar whatever bookCourt returned
BookCourtSettlesSyncsAnyway(success) ==
  /\ tool.pc = "bookCourt"
  /\ tool' = AfterClose(tool)
  /\ UNCHANGED <<reg, bot, cmp, calls, env>>

\* bot.bookCourt(time) returned success; on true closeBrowser() starts
BookCourtSettles(success) ==
  /\ tool.pc = "bookCourt"
  /\ tool' =
       IF ~success THEN Return(tool, "failed")
       ELSE LET t == [tool EXCEPT !.booked = TRUE]
            IN IF ~t.initialized THEN AfterClose(t)
               ELSE IF t.stagehand = "null" THEN AfterClose([t EXCEPT !.initialized = FALSE])
               ELSE [Logged(t, Call("close")) EXCEPT !.pc = "close"]
  /\ UNCHANGED <<reg, bot, cmp, calls, env>>

\* a closeBrowser() that leaves this.initialized as it is
CloseSettlesKeepsFlag(ok) ==
  /\ tool.pc = "close"
  /\ tool' = IF ok
             THEN AfterClose([tool EXCEPT !.stagehand = "null", !.isLoggedIn = FALSE])
             ELSE Throw(tool)
  /\ UNCHANGED <<reg, bot, cmp, calls, env>>

\* bot.close(): await this.stagehand.close() settled
CloseSettles(ok) ==
  /\ tool.pc = "close"
  /\ tool' = IF ok
             THEN AfterClose([tool EXCEPT !.stagehand = "null", !.isLoggedIn = FALSE,
                                          !.initialized = FALSE])
             ELSE Throw(tool)
  /\ UNCHANGED <<reg, bot, cmp, calls, env>>

\* a tool function that reports a failed calendar call as an error
CalendarSettlesFailureIsError(ok) ==
  /\ tool.pc = "calendar"
  /\ tool' = IF ok THEN Return(tool, "bookedAndSynced") ELSE Throw(tool)
  /\ UNCHANGED <<reg, bot, cmp, calls, env>>

\* calendarService.addCourtBooking() returned calendarSuccess
CalendarSettles(ok) ==
  /\ tool.pc = "calendar"
  /\ tool' = Return(tool, IF ok THEN "bookedAndSynced" ELSE "booked")
  /\ UNCHANGED <<reg, bot, cmp, calls, env>>

\* new BookingToolManager(); initCalendar() has settled either way
InitTool ==
  /\ RegInit
  /\ tool \in {IdleTool(cal) : cal \in BOOLEAN}
  /\ bot = NoCall
  /\ cmp = NoCmp
  /\ calls = NoCalls
  /\ env = FullEnv

NextTool ==
  \/ \E a \in Actions, s \in Sports, d \in Dates, tm \in Times : Invoke(a, s, d, tm)
  \/ \E ok \in BOOLEAN : InitSettles(ok)
  \/ \E ok \in BOOLEAN : LoginSettles(ok)
  \/ \E ok \in BOOLEAN : NavigateSettles(ok)
  \/ \E out \in {"empty", "some", "throw"} : GetTimesSettles(out)
  \/ \E success \in BOOLEAN : BookCourtSettles(success)
  \/ \E ok \in BOOLEAN : CloseSettles(ok)
  \/ \E ok \in BOOLEAN : CalendarSettles(ok)

SpecTool == InitTool /\ [][NextTool]_vars

\* ------------------------------------- ensureInitialized() under several calls
\* The 'message' handler awaits agent.chat() without looking at a busy flag, so
\* the tool function can be entered again while an earlier call is suspended in
\* ensureInitialized(). tool holds the manager's and the bot's fields, tool.log
\* the init() and login() calls of the current period (since the last
\* teardown), calls[c] where call c is.

\* func enters ensureInitialized(): if (!this.initialized) await this.bot.init()
Ensure(c) ==
  /\ calls[c] = "none"
  /\ Len(tool.log) < MaxLog
  /\ IF ~tool.initialized
     THEN /\ tool' = [Logged(tool, Call("init")) EXCEPT !.stagehand = "set"]
          /\ calls' = [calls EXCEPT ![c] = "init"]
     ELSE /\ calls' = [calls EXCEPT ![c] = "ready"]
          /\ UNCHANGED tool
  /\ UNCHANGED <<reg, bot, cmp, env>>

\* call c's bot.init() settled; then await this.bot.login()
EnsureInitSettles(c, ok) ==
  /\ calls[c] = "init"
  /\ IF ok
     THEN /\ tool' = Logged(tool, Call("login"))
          /\ calls' = [calls EXCEPT ![c] = IF tool.stagehand = "null" THEN "error" ELSE "login"]
     ELSE /\ calls' = [calls EXCEPT ![c] = "error"]
          /\ UNCHANGED tool
  /\ UNCHANGED <<reg, bot, cmp, env>>

\* call c's bot.login() settled; then this.initialized = true
EnsureLoginSettles(c, ok) ==
  /\ calls[c] = "login"
  /\ IF ok
     THEN /\ tool' = [tool EXCEPT !.isLoggedIn = TRUE, !.initialized = TRUE]
          /\ calls' = [calls EXCEPT ![c] = "ready"]
     ELSE /\ calls' = [calls EXCEPT ![c] = "error"]
          /\ UNCHANGED tool
  /\ UNCHANGED <<reg, bot, cmp, env>>

\* call c booked and runs closeBrowser(): the period ends
EnsureTeardown(c) ==
  /\ calls[c] = "ready"
  /\ tool.initialized
  /\ tool' = [tool EXCEPT !.stagehand = "null", !.isLoggedIn = FALSE,
                          !.initialized = FALSE, !.log = <<>>]
  /\ calls' = [calls EXCEPT ![c] = "none"]
  /\ UNCHANGED <<reg, bot, cmp, env>>

\* call c returns its string
EnsureReturn(c) ==
  /\ calls[c] \in {"ready", "error"}
  /\ calls' = [calls EXCEPT ![c] = "none"]
  /\ UNCHANGED <<reg, tool, bot, cmp, env>>

InitEnsure ==
  /\ RegInit
  /\ tool = IdleTool(FALSE)
  /\ bot = NoCall
  /\ cmp = NoCmp
  /\ calls = NoCalls
  /\ env = FullEnv

NextEnsure ==
  \/ \E c \in Callers : Ensure(c)
  \/ \E c \in Callers, ok \in BOOLEAN : EnsureInitSettles(c, ok)
  \/ \E c \in Callers, ok \in BOOLEAN : EnsureLoginSettles(c, ok)
  \/ \E c \in Callers : EnsureTeardown(c)
  \/ \E c \in Callers : EnsureReturn(c)

SpecEnsure == InitEnsure /\ [][NextEnsure]_vars

\* ------------------------------------------- the remote browser of one manager
\* One request at a time. tool holds the flags (initialized, stagehand,
\* isLoggedIn); bot.ctxs is the state of every browser context the bot has
\* opened ("open", "closed" by stagehand.close(), "dead" when the remote side
\* ended it), bot.cur the context this.stagehand drives (0: none), bot.last the
\* manager or driver call that ended last.

NoBrowser == [op |-> "browser", pc |-> "idle", ctxs |-> <<>>, cur |-> 0, last |-> "none",
              closes |-> <<>>]

\* this.stagehand = null; this.isLoggedIn = false
ClosedDriver(t) == [t EXCEPT !.stagehand = "null", !.isLoggedIn = FALSE]

\* await this.stagehand.close() returned
ClosedCtx(b) ==
  [b EXCEPT !.ctxs = IF b.cur = 0 THEN @ ELSE [@ EXCEPT ![b.cur] = "closed"], !.cur = 0]

\* ensureInitialized(): nothing when the flag is set, else bot.init() (a new
\* Stagehand; its init() opens a context when it succeeds) and bot.login()
EnsureInitialized(initOk, loginOk) ==
  /\ bot.op = "browser"
  /\ IF tool.initialized
     THEN /\ bot' = [bot EXCEPT !.last = "ensured"]
          /\ UNCHANGED tool
     ELSE /\ Len(bot.ctxs) < MaxCtx
          /\ IF ~initOk
             THEN /\ tool' = [tool EXCEPT !.stagehand = "set"]
                  /\ bot' = [bot EXCEPT !.cur = 0, !.last = "ensureFailed"]
             ELSE /\ bot' = [bot EXCEPT !.ctxs = Append(@, "open"), !.cur = Len(bot.ctxs) + 1,
                                        !.last = IF loginOk THEN "ensured" ELSE "ensureFailed"]
                  /\ tool' = IF loginOk
                             THEN [tool EXCEPT !.stagehand = "set", !.isLoggedIn = TRUE,
                                               !.initialized = TRUE]
                             ELSE [tool EXCEPT !.stagehand = "set"]
  /\ UNCHANGED <<reg, cmp, calls, env>>

\* the remote side ends the context this.stagehand drives
BrowserDies ==
  /\ bot.op = "browser"
  /\ bot.cur # 0
  /\ bot.ctxs[bot.cur] = "open"
  /\ bot' = [bot EXCEPT !.ctxs[bot.cur] = "dead", !.last = "died"]
  /\ UNCHANGED <<reg, tool, cmp, calls, env>>

\* a page call of navigateToBooking / getAvailableTimes / bookCourt on the
\* initialized session: it throws on a dead context, and may throw otherwise
PageCall(ok) ==
  /\ bot.op = "browser"
  /\ tool.initialized
  /\ bot' = [bot EXCEPT !.last = IF ok /\ bot.cur # 0 /\ bot.ctxs[bot.cur] = "open"
                                   THEN "pageOk" ELSE "pageFailed"]
  /\ UNCHANGED <<reg, tool, cmp, calls, env>>

\* cleanup() and closeBrowser(): if (this.initialized) { await this.bot.close();
\* this.initialized = false }; which is "cleanup" or "closeBrowser"
CloseBrowser(which, ok) ==
  /\ bot.op = "browser"
  /\ IF ~tool.initialized
     THEN /\ bot' = [bot EXCEPT !.last = which]
          /\ UNCHANGED tool
     ELSE IF tool.stagehand = "null"
     THEN /\ bot' = [bot EXCEPT !.last = which]
          /\ tool' = [tool EXCEPT !.initialized = FALSE]
     ELSE IF ok
     THEN /\ bot' = [ClosedCtx(bot) EXCEPT !.last = which]
          /\ tool' = [ClosedDriver(tool) EXCEPT !.initialized = FALSE]
     ELSE /\ bot' = [bot EXCEPT !.last = "closeThrew"]
          /\ UNCHANGED tool
  /\ UNCHANGED <<reg, cmp, calls, env>>

InitBrowser ==
  /\ RegInit
  /\ tool = IdleTool(FALSE)
  /\ bot = NoBrowser
  /\ cmp = NoCmp
  /\ calls = NoCalls
  /\ env = FullEnv

NextBrowser ==
  \/ \E initOk \in BOOLEAN, loginOk \in BOOLEAN : EnsureInitialized(initOk, loginOk)
  \/ BrowserDies
  \/ \E ok \in BOOLEAN : PageCall(ok)
  \/ \E which \in {"cleanup", "closeBrowser"}, ok \in BOOLEAN : CloseBrowser(which, ok)

SpecBrowser == InitBrowser /\ [][NextBrowser]_vars

\* ---------------------------------------------------------- BayClubBot.close
\* close() applied up to MaxCloses times in a row to a driver in any state a
\* manager can leave it in; bot.closes is what each call did.

\* a close() that keeps the handle after closing the context
BotCloseKeepsHandle(ok) ==
  /\ bot.op = "browser"
  /\ Len(bot.closes) < MaxCloses
  /\ IF tool.stagehand = "set" /\ ok
     THEN /\ bot' = [bot EXCEPT !.ctxs = IF bot.cur = 0 THEN @ ELSE [@ EXCEPT ![bot.cur] = "closed"],
                                !.closes = Append(@, "closed")]
          /\ UNCHANGED tool
     ELSE /\ bot' = [bot EXCEPT !.closes = Append(@, IF tool.stagehand = "set" THEN "threw" ELSE "noop")]
          /\ UNCHANGED tool
  /\ UNCHANGED <<reg, cmp, calls, env>>

\* if (this.stagehand) { await this.stagehand.close(); this.stagehand = null;
\* this.isLoggedIn = false }
BotClose(ok) ==
  /\ bot.op = "browser"
  /\ Len(bot.closes) < MaxCloses
  /\ IF tool.stagehand = "null"
     THEN /\ bot' = [bot EXCEPT !.closes = Append(@, "noop")]
          /\ UNCHANGED tool
     ELSE IF ok
     THEN /\ bot' = [ClosedCtx(bot) EXCEPT !.closes = Append(@, "closed")]
          /\ tool' = ClosedDriver(tool)
     ELSE /\ bot' = [bot EXCEPT !.closes = Append(@, "threw")]
          /\ UNCHANGED tool
  /\ UNCHANGED <<reg, cmp, calls, env>>

\* the driver states: no handle (nothing driven, not logged in), or a handle
\* whose init() failed (no context), or a handle on the last context opened
DriverStates ==
  {<<t, b>> \in
     {[IdleTool(FALSE) EXCEPT !.stagehand = h, !.isLoggedIn = l] :
        h \in {"null", "set"}, l \in BOOLEAN}
     \X {[NoBrowser EXCEPT !.ctxs = c, !.cur = k] :
           c \in SeqsUpTo({"open", "closed", "dead"}, MaxCtx), k \in 0 .. MaxCtx} :
     /\ b.cur \in {0, Len(b.ctxs)}
     /\ b.cur # 0 => b.ctxs[b.cur] # "closed"
     /\ t.stagehand = "null" => (b.cur = 0 /\ ~t.isLoggedIn)
     /\ t.isLoggedIn => b.cur # 0}

InitClose ==
  /\ RegInit
  /\ \E d \in DriverStates : tool = d[1] /\ bot = d[2]
  /\ cmp = NoCmp
  /\ calls = NoCalls
  /\ env = FullEnv

NextClose == \E ok \in BOOLEAN : BotClose(ok)

SpecClose == InitClose /\ [][NextClose]_vars

\* ------------------------------------------------ BayClubBot.navigateToBooking
\* bot.did is the page interactions of the call that succeeded, in order,
\* bot.soft the optional steps that failed, bot.prev how the call before ended.

\* the steps in program order; each is a waitForSelector and a click on one
\* target, but "goto", the page.goto of the dashboard URL
Chain ==
  <<"goto", "clubSelector", "gatewayClub", "saveButton", "scheduleActivity",
    "courtBooking", "sport", "duration", "next", "day", "hourView">>

\* the steps whose failure is caught next to them
SoftSteps == {"day", "hourView"}

HourViewSelectors == 3

StepIndex(step) == CHOOSE i \in DOMAIN Chain : Chain[i] = step

\* a call that takes up the chain where a failed call stopped
FirstStepResumes(b) ==
  IF b.op = "navigate" /\ b.prev = "navError" /\ b.did # <<>>
  THEN Chain[StepIndex(b.did[Len(b.did)]) + 1]
  ELSE "goto"

\* the first page interaction of a call: page.goto(dashboard)
FirstStep(b) == "goto"

\* the driver is ready for navigateToBooking
ReadyTool ==
  [IdleTool(FALSE) EXCEPT !.initialized = TRUE, !.stagehand = "set", !.isLoggedIn = TRUE]

\* navigateToBooking(sport, day) up to its first page call
StartNavigate(sp) ==
  /\ bot.pc = "idle"
  /\ bot.op \in {"none", "navigate"}
  /\ bot' =
       LET b == [op |-> "navigate", pc |-> FirstStep(bot), sport |-> sp, did |-> <<>>,
                 soft |-> <<>>, k |-> 1, result |-> "none",
                 prev |-> IF bot.op = "navigate" THEN bot.prev ELSE "none"]
       IN IF tool.stagehand = "null" \/ ~tool.isLoggedIn
          THEN [b EXCEPT !.pc = "done", !.result = "notLoggedIn"]
          ELSE b
  /\ UNCHANGED <<reg, tool, cmp, calls, env>>

\* the call goes on after step st
AfterStep(b, st) ==
  IF StepIndex(st) < Len(Chain)
  THEN [b EXCEPT !.pc = Chain[StepIndex(st) + 1], !.k = 1]
  ELSE [b EXCEPT !.pc = "done", !.result = "ok"]

\* a navigation that goes on after a step that timed out
StepFailsGoesOn(b) == AfterStep(b, b.pc)

\* catch (error): throw new Error(`Failed to navigate to booking: ...`)
StepFails(b) == [b EXCEPT !.pc = "done", !.result = "navError"]

\* a navigation in which a failed optional step ends the call
SoftFailsFatal(b) == StepFails(b)

\* the inner catch of an optional step: log, go on
SoftFails(b) == AfterStep([b EXCEPT !.soft = Append(@, b.pc)], b.pc)

\* one step of the chain; out is what the page does
NavStep(out) ==
  /\ bot.op = "navigate"
  /\ bot.pc \in {Chain[i] : i \in DOMAIN Chain}
  /\ bot' =
       IF bot.pc = "sport"
       THEN \* the text selector, then the XPath of the sport
            IF out = "ok" THEN AfterStep([bot EXCEPT !.did = Append(@, "sport")], "sport")
            ELSE IF bot.k = 1 THEN [bot EXCEPT !.k = 2]
            ELSE StepFails(bot)
       ELSE IF bot.pc = "hourView"
       THEN IF out = "ok" THEN AfterStep([bot EXCEPT !.did = Append(@, "hourView")], "hourView")
            ELSE IF bot.k < HourViewSelectors THEN [bot EXCEPT !.k = @ + 1]
            ELSE SoftFails(bot)
       ELSE IF out = "ok" THEN AfterStep([bot EXCEPT !.did = Append(@, bot.pc)], bot.pc)
       ELSE IF bot.pc \in SoftSteps THEN SoftFails(bot)
       ELSE StepFails(bot)
  /\ UNCHANGED <<reg, tool, cmp, calls, env>>

\* the call has returned or thrown; the driver is idle again
NavReturns ==
  /\ bot.op = "navigate"
  /\ bot.pc = "done"
  /\ bot' = [bot EXCEPT !.pc = "idle", !.prev = bot.result]
  /\ UNCHANGED <<reg, tool, cmp, calls, env>>

InitNav ==
  /\ RegInit
  /\ tool \in {IdleTool(FALSE), ReadyTool}
  /\ bot = NoCall
  /\ cmp = NoCmp
  /\ calls = NoCalls
  /\ env = FullEnv

NextNav ==
  \/ \E sp \in Sports : StartNavigate(sp)
  \/ \E out \in {"ok", "timeout"} : NavStep(out)
  \/ NavReturns

SpecNav == InitNav /\ [][NextNav]_vars

\* ---------------------------------------------------------- BayClubBot.login
\* The part of login() from the form on. A URL is the sequence of the
\* characters that follow the origin. bot.seen is the URL when waitForURL
\* settled, bot.final the one page.url() returned, bot.err the URL in the
\* error, bot.n the calls so far.

HomePath == <<"/", "h", "o", "m", "e">>
DashPath == <<"/", "d", "a", "s", "h", "b", "o", "a", "r", "d">>
LoginPath == <<"/", "l", "o", "g", "i", "n">>
NoUrl == <<>>

\* the pages the browser can be on after the submit: the dashboard (with or
\* without a query), the login page (with or without the return path in its
\* query), another page whose path ends in /dashboard
Urls ==
  {HomePath \o DashPath,
   HomePath \o DashPath \o <<"?", "t", "=", "1">>,
   LoginPath,
   LoginPath \o <<"?", "r", "=">> \o HomePath \o DashPath,
   <<"/", "m", "y">> \o DashPath}

\* the path of a URL: what precedes the query
PathOf(url) ==
  LET q == {i \in DOMAIN url : url[i] = "?"}
  IN IF q = {} THEN url ELSE SubSeq(url, 1, (CHOOSE i \in q : \A j \in q : i <= j) - 1)

\* page.waitForURL('**/home/dashboard**') resolves on this URL
WaitMatches(url) == Includes(url, HomePath \o DashPath)

\* finalUrl.includes('/home/dashboard') || finalUrl.includes('/dashboard')
Verified(url) == Includes(url, HomePath \o DashPath) \/ Includes(url, DashPath)

\* login() on a driver that is not logged in, up to the username field
StartLogin ==
  /\ bot.pc = "idle"
  /\ bot.op \in {"none", "login"}
  /\ tool.stagehand = "set"
  /\ ~tool.isLoggedIn
  /\ (IF bot.op = "login" THEN bot.n ELSE 0) < MaxLogins
  /\ bot' = [op |-> "login", pc |-> "username", seen |-> NoUrl, final |-> NoUrl,
             timedOut |-> FALSE, result |-> "none", err |-> NoUrl,
             n |-> (IF bot.op = "login" THEN bot.n ELSE 0) + 1]
  /\ UNCHANGED <<reg, tool, cmp, calls, env>>

\* the username field, the password field, the login button: count() === 0
\* or a failing waitFor / click / fill throws
FormStep(ok) ==
  /\ bot.op = "login"
  /\ bot.pc \in {"username", "password", "button"}
  /\ bot' = IF ~ok THEN [bot EXCEPT !.pc = "done", !.result = "formError"]
            ELSE [bot EXCEPT !.pc = CASE bot.pc = "username" -> "password"
                                      [] bot.pc = "password" -> "button"
                                      [] bot.pc = "button" -> "wait"]
  /\ UNCHANGED <<reg, tool, cmp, calls, env>>

\* waitForURL settled with the page on url: resolved, or timed out and caught
WaitSettles(url) ==
  /\ bot.op = "login"
  /\ bot.pc = "wait"
  /\ bot' = [bot EXCEPT !.pc = "verify", !.seen = url, !.timedOut = ~WaitMatches(url)]
  /\ UNCHANGED <<reg, tool, cmp, calls, env>>

\* const finalUrl = page.url(); isLoggedIn = true, or throw with finalUrl
Verify(url) ==
  /\ bot.op = "login"
  /\ bot.pc = "verify"
  /\ IF Verified(url)
     THEN /\ bot' = [bot EXCEPT !.pc = "done", !.final = url, !.result = "ok"]
          /\ tool' = [tool EXCEPT !.isLoggedIn = TRUE]
     ELSE /\ bot' = [bot EXCEPT !.pc = "done", !.final = url, !.result = "failed", !.err = url]
          /\ UNCHANGED tool
  /\ UNCHANGED <<reg, cmp, calls, env>>

\* login() has returned or thrown
LoginReturns ==
  /\ bot.op = "login"
  /\ bot.pc = "done"
  /\ bot' = [bot EXCEPT !.pc = "idle"]
  /\ UNCHANGED <<reg, tool, cmp, calls, env>>

InitLogin ==
  /\ RegInit
  /\ tool = [IdleTool(FALSE) EXCEPT !.stagehand = "set"]
  /\ bot = NoCall
  /\ cmp = NoCmp
  /\ calls = NoCalls
  /\ env = FullEnv

NextLogin ==
  \/ StartLogin
  \/ \E ok \in BOOLEAN : FormStep(ok)
  \/ \E url \in Urls : WaitSettles(url)
  \/ \E url \in Urls : Verify(url)
  \/ LoginReturns

SpecLogin == InitLogin /\ [][NextLogin]_vars

\* ------------------------------------------------------ BayClubBot.timeMatches
\* A string is the sequence of its characters.

Digits == {"0", "1", "2", "3", "4", "5", "6", "7", "8", "9"}

\* timeStr.match(/^(\d{1,2}:\d{2})/): the group, <<>> for '' when there is no match
extractStartTime(timeStr) ==
  IF /\ Len(timeStr) >= 5
     /\ timeStr[1] \in Digits /\ timeStr[2] \in Digits /\ timeStr[3] = ":"
     /\ timeStr[4] \in Digits /\ timeStr[5] \in Digits
  THEN SubSeq(timeStr, 1, 5)
  ELSE IF /\ Len(timeStr) >= 4
          /\ timeStr[1] \in Digits /\ timeStr[2] = ":"
          /\ timeStr[3] \in Digits /\ timeStr[4] \in Digits
  THEN SubSeq(timeStr, 1, 4)
  ELSE <<>>

\* a comparison that accepts the user's start time anywhere in the page label
timeMatchesAnywhere(userTime, pageTime) ==
  LET userStartTime == extractStartTime(userTime)
  IN /\ userStartTime # <<>>
     /\ \E i \in 1 .. Len(pageTime) :
          /\ i + Len(userStartTime) - 1 <= Len(pageTime)
          /\ SubSeq(pageTime, i, i + Len(userStartTime) - 1) = userStartTime

\* timeMatches(userTime, pageTime)
timeMatches(userTime, pageTime) ==
  LET userStartTime == extractStartTime(userTime)
      pageStartTime == extractStartTime(pageTime)
  IN IF userStartTime = <<>> \/ pageStartTime = <<>> THEN FALSE
     ELSE IF userStartTime = pageStartTime THEN TRUE
     ELSE FALSE

\* the characters the compared strings are made of: a digit, the colon, and
\* one character that is neither
Chars == {"1", ":", "P"}
Strings == UNION {[1 .. n -> Chars] : n \in 0 .. MaxLen}

\* one call timeMatches(cmp.userTime, cmp.pageTime)
Compare ==
  /\ ~cmp.done
  /\ cmp' = [cmp EXCEPT !.done = TRUE, !.result = timeMatches(cmp.userTime, cmp.pageTime)]
  /\ UNCHANGED <<reg, tool, bot, calls, env>>

\* the two arguments are any strings of at most MaxLen characters
InitMatch ==
  /\ RegInit
  /\ tool = IdleTool(FALSE)
  /\ bot = NoCall
  /\ cmp \in [done : {FALSE}, userTime : Strings, pageTime : Strings, result : {FALSE}]
  /\ calls = NoCalls
  /\ env = FullEnv

NextMatch == Compare

SpecMatch == InitMatch /\ [][NextMatch]_vars

\* -------------------------------------------------------- BayClubBot.bookCourt
\* One call on one page. bot.slots are the labels of the time slot elements in
\* page order, bot.buttons the buttons of the confirmation page, bot.clicks the
\* clicks that succeeded, in order.

T230PM == <<"2", ":", "3", "0", " ", "P", "M">>
T1230PM == <<"1", "2", ":", "3", "0", " ", "P", "M">>
ReqTimes == {T230PM, T1230PM}

L230 == <<"2", ":", "3", "0", " ", "-", " ", "4", ":", "0", "0", " ", "P", "M">>
L230Padded == <<" ">> \o L230 \o <<" ">>
L1230 == <<"1", "2", ":", "3", "0", " ", "-", " ", "2", ":", "0", "0", " ", "P", "M">>
LBooked == <<"B", "o", "o", "k", "e", "d">>
Labels == {L230, L230Padded, L1230, LBooked}

\* a button: whether its text contains confirm, book, submit or complete, and
\* whether it is visible
Buttons == [confirms : BOOLEAN, visible : BOOLEAN]

BuddyStrategies == 5     \* three XPaths, the first person element, the name text

\* text.trim()
Trim(str) ==
  LET idx == {i \in 1 .. Len(str) : str[i] # " "}
  IN IF idx = {} THEN <<>>
     ELSE SubSeq(str, CHOOSE i \in idx : \A j \in idx : i <= j,
                      CHOOSE i \in idx : \A j \in idx : i >= j)

\* the tool's result string for the value bookCourt returned
BookResult(success) == IF success THEN "booked" ELSE "failed"

\* bookCourt returns v
Ret(b, v) == [b EXCEPT !.pc = "done", !.ret = v, !.result = BookResult(v)]

Click(b, what, at) == [b EXCEPT !.clicks = Append(@, [what |-> what, at |-> at])]

\* a test that looks for the requested start time anywhere in the label
SlotMatchesAnywhere(b, i) == timeMatchesAnywhere(b.time, Trim(b.slots[i]))

\* this.timeMatches(time, trimmedText) for element i
SlotMatches(b, i) == timeMatches(b.time, Trim(b.slots[i]))

\* after the slot loop: if (!clicked) return false
AfterSlots(b) == IF ~b.clicked THEN Ret(b, FALSE) ELSE [b EXCEPT !.pc = "next"]

\* the slot loop goes on to the next element
NextSlot(b) == IF b.i < Len(b.slots) THEN [b EXCEPT !.i = @ + 1] ELSE AfterSlots(b)

\* a loop that goes on after a click without recording it
SlotClickedForgets(b) == NextSlot(b)

\* clicked = true; break
SlotClicked(b) == AfterSlots([b EXCEPT !.clicked = TRUE])

\* a buddy phase that goes on to the confirmation whatever happened
AfterBuddyAlways(b) == [b EXCEPT !.pc = "confirm", !.i = 1]

\* after the buddy strategies: if (!clicked) throw, caught by return false
AfterBuddy(b) == IF ~b.buddy THEN Ret(b, FALSE) ELSE [b EXCEPT !.pc = "confirm", !.i = 1]

\* bookCourt(time) up to the slot loop
StartBook(t, sl, bs) ==
  /\ bot.pc = "idle"
  /\ bot' = LET b == [op |-> "book", pc |-> "slots", time |-> t, slots |-> sl,
                      buttons |-> bs, i |-> 1, clicked |-> FALSE, buddy |-> FALSE,
                      clicks |-> <<>>, ret |-> FALSE, result |-> "none"]
            IN IF sl = <<>> THEN AfterSlots(b) ELSE b
  /\ UNCHANGED <<reg, tool, cmp, calls, env>>

\* one pass of the slot loop; out is what the element does
\*   "unreadable" textContent() throws or is empty   "hidden" isVisible() is false
\*   "plain" click() succeeds   "force" click() throws, click({force}) succeeds
\*   "throws" both clicks throw
SlotStep(out) ==
  /\ bot.op = "book" /\ bot.pc = "slots"
  /\ bot' = IF out = "unreadable" \/ ~SlotMatches(bot, bot.i) THEN NextSlot(bot)
            ELSE IF bot.clicked THEN NextSlot(bot)
            ELSE IF out \in {"plain", "force"} THEN SlotClicked(Click(bot, "slot", bot.i))
            ELSE NextSlot(bot)
  /\ UNCHANGED <<reg, tool, cmp, calls, env>>

\* the Next button: a failure is only logged
NextStep(ok) ==
  /\ bot.op = "book" /\ bot.pc = "next"
  /\ bot' = [(IF ok THEN Click(bot, "next", 1) ELSE bot) EXCEPT !.pc = "buddy", !.i = 1]
  /\ UNCHANGED <<reg, tool, cmp, calls, env>>

\* buddy strategy bot.i: it clicks a companion, or it fails
BuddyStep(ok) ==
  /\ bot.op = "book" /\ bot.pc = "buddy"
  /\ bot' = IF ok THEN AfterBuddy([Click(bot, "buddy", bot.i) EXCEPT !.buddy = TRUE])
            ELSE IF bot.i < BuddyStrategies THEN [bot EXCEPT !.i = @ + 1]
            ELSE AfterBuddy(bot)
  /\ UNCHANGED <<reg, tool, cmp, calls, env>>

\* the first button loop goes on; after it, the loop over any visible button
NextConfirm(b) ==
  IF b.i < Len(b.buttons) THEN [b EXCEPT !.i = @ + 1]
  ELSE [b EXCEPT !.pc = "any", !.i = 1]

\* the second button loop goes on; after it, return false
NextAny(b) == IF b.i < Len(b.buttons) THEN [b EXCEPT !.i = @ + 1] ELSE Ret(b, FALSE)

\* first loop, button bot.i: a visible confirm / book / submit / complete button
\* is clicked (plain, then forced)
ConfirmStep(out) ==
  /\ bot.op = "book" /\ bot.pc = "confirm"
  /\ bot' = IF bot.buttons = <<>> THEN Ret(bot, FALSE)
            ELSE IF /\ bot.buttons[bot.i].visible
                    /\ bot.buttons[bot.i].confirms
                    /\ out \in {"plain", "force"}
            THEN Ret(Click(bot, "confirm", bot.i), TRUE)
            ELSE NextConfirm(bot)
  /\ UNCHANGED <<reg, tool, cmp, calls, env>>

\* second loop, button bot.i: any visible button is clicked
AnyStep(ok) ==
  /\ bot.op = "book" /\ bot.pc = "any"
  /\ bot' = IF bot.buttons[bot.i].visible /\ ok
            THEN Ret(Click(bot, "any", bot.i), TRUE)
            ELSE NextAny(bot)
  /\ UNCHANGED <<reg, tool, cmp, calls, env>>

\* ------------------------------------------------ BayClubBot.getAvailableTimes
\* bot.tried is what each enumeration strategy did, bot.found the labels of the
\* elements kept in timeSlotElements.

Methods == 4     \* strategies of getAvailableTimes
MaxDivText == 15 \* trimmed.length <= 15

\* trimmed.includes(':') && (upper.includes('AM') || upper.includes('PM'))
LooksLikeTime(str) ==
  /\ Includes(str, <<":">>)
  /\ \/ \E a \in {"a", "A"}, m \in {"m", "M"} : Includes(str, <<a, m>>)
     \/ \E pp \in {"p", "P"}, m \in {"m", "M"} : Includes(str, <<pp, m>>)

\* a collection that keeps every trimmed text, time or not
TimesOfUnfiltered(ls) == [i \in 1 .. Len(ls) |-> Trim(ls[i])]

\* the trimmed texts that look like a time, in element order
RECURSIVE TimesOf(_)
TimesOf(ls) ==
  IF ls = <<>> THEN <<>>
  ELSE IF LooksLikeTime(Trim(Head(ls))) THEN <<Trim(Head(ls))>> \o TimesOf(Tail(ls))
  ELSE TimesOf(Tail(ls))

\* a de-duplication that drops the last label only, when it is a repeat
UniqueOnce(ts) ==
  IF ts = <<>> THEN <<>>
  ELSE IF \E i \in 1 .. Len(ts) - 1 : ts[i] = ts[Len(ts)] THEN SubSeq(ts, 1, Len(ts) - 1)
  ELSE ts

\* [...new Set(availableTimes)]: first occurrences, in order
RECURSIVE Unique(_)
Unique(ts) ==
  IF ts = <<>> THEN <<>>
  ELSE LET rest == Unique(SubSeq(ts, 1, Len(ts) - 1))
       IN IF \E i \in 1 .. Len(ts) - 1 : ts[i] = ts[Len(ts)] THEN rest
          ELSE Append(rest, ts[Len(ts)])

\* a dispatcher that reports an empty list as an error
QueryResultEmptyIsError(times) == IF Len(times) = 0 THEN "error" ELSE "times"

\* the tool's result string for the list getAvailableTimes returned
QueryResult(times) == IF Len(times) = 0 THEN "noCourts" ELSE "times"

\* getAvailableTimes() up to its first strategy
StartQuery(sl) ==
  /\ bot.pc = "idle"
  /\ bot' = [op |-> "query", pc |-> "method", slots |-> sl, i |-> 1, tried |-> <<>>,
             found |-> <<>>, times |-> <<>>, result |-> "none"]
  /\ UNCHANGED <<reg, tool, cmp, calls, env>>

\* return uniqueTimes, and the tool's result for it
ReturnTimes(b) ==
  [b EXCEPT !.pc = "done", !.times = Unique(TimesOf(b.found)),
            !.result = QueryResult(Unique(TimesOf(b.found)))]

\* the divs strategy 4 keeps: text that looks like a time, of at most
\* MaxDivText characters
TimeDivs(ls) == SelectSeq(ls, LAMBDA l : LooksLikeTime(Trim(l)) /\ Len(Trim(l)) <= MaxDivText)

\* an enumeration that runs every strategy
AttemptedAlways(b) == TRUE

\* if (timeSlotElements.length === 0): the strategy runs
Attempted(b) == b.found = <<>>

\* strategy bot.i; out is what the page gives it
\*   "zero"   no element   "found" the slot elements of the page
\*   "throws" a page call of the strategy throws
MethodStep(out) ==
  /\ bot.op = "query" /\ bot.pc = "method"
  /\ bot' =
       LET got == IF out # "found" THEN <<>>
                  ELSE IF bot.i = Methods THEN TimeDivs(bot.slots)
                  ELSE bot.slots
           did == IF ~Attempted(bot) THEN "skipped"
                  ELSE IF out = "throws" THEN "throws"
                  ELSE IF got = <<>> THEN "zero"
                  ELSE "found"
           b == [bot EXCEPT !.tried = Append(@, did),
                            !.found = IF Attempted(bot) THEN got ELSE @]
       IN IF bot.i = Methods /\ did = "throws"
          THEN \* page.$$('div') is outside the inner try blocks: catch, throw error
               [b EXCEPT !.pc = "done", !.result = "error"]
          ELSE IF bot.i < Methods THEN [b EXCEPT !.i = @ + 1]
          ELSE ReturnTimes(b)
  /\ UNCHANGED <<reg, tool, cmp, calls, env>>

\* the driver is idle again
Finish ==
  /\ bot.pc = "done"
  /\ bot' = NoCall
  /\ UNCHANGED <<reg, tool, cmp, calls, env>>

InitDriver ==
  /\ RegInit
  /\ tool = IdleTool(FALSE)
  /\ bot = NoCall
  /\ cmp = NoCmp
  /\ calls = NoCalls
  /\ env = FullEnv

NextDriver ==
  \/ /\ bot.pc = "idle"
     /\ \E t \in ReqTimes, sl \in SeqsUpTo(Labels, MaxSlots),
           bs \in SeqsUpTo(Buttons, MaxButtons) : StartBook(t, sl, bs)
  \/ \E out \in {"unreadable", "hidden", "plain", "force", "throws"} : SlotStep(out)
  \/ \E ok \in BOOLEAN : NextStep(ok)
  \/ \E ok \in BOOLEAN : BuddyStep(ok)
  \/ \E out \in {"plain", "force", "throws"} : ConfirmStep(out)
  \/ \E ok \in BOOLEAN : AnyStep(ok)
  \/ /\ bot.pc = "idle"
     /\ \E sl \in SeqsUpTo(Labels, MaxSlots) : StartQuery(sl)
  \/ \E out \in {"zero", "found", "throws"} : MethodStep(out)
  \/ Finish

SpecDriver == InitDriver /\ [][NextDriver]_vars

\* ------------------------------------------------- [...new Set(availableTimes)]
\* The de-duplication applied to a list of labels, and again to its result.

TimeLabels == {Trim(L230), Trim(L1230), <<"9", ":", "0", "0", " ", "A", "M">>}

\* uniqueTimes = [...new Set(availableTimes)], on the list or on the last result
Dedupe ==
  /\ cmp.done
  /\ cmp.stage < 2
  /\ cmp' = IF cmp.stage = 0
            THEN [cmp EXCEPT !.stage = 1, !.out = Unique(cmp.xs)]
            ELSE [cmp EXCEPT !.stage = 2, !.again = Unique(cmp.out)]
  /\ UNCHANGED <<reg, tool, bot, calls, env>>

InitDedupe ==
  /\ RegInit
  /\ tool = IdleTool(FALSE)
  /\ bot = NoCall
  /\ cmp \in [done : {TRUE}, stage : {0}, xs : SeqsUpTo(TimeLabels, MaxTimes),
              out : {<<>>}, again : {<<>>}]
  /\ calls = NoCalls
  /\ env = FullEnv

NextDedupe == Dedupe

SpecDedupe == InitDedupe /\ [][NextDedupe]_vars

\* ================================================================ properties

\* the session object that socket k's timer callback looks up
TimerSession(k) == sessions[socks[k].sid]

\* the step runs the callback of socket k's timer
TimerRuns(k) == socks[k].timer = "armed" /\ socks'[k].timer # "armed"

\* the number of times m occurs in the sequence q
Occurrences(q, m) == Cardinality({i \in DOMAIN q : q[i] = m})

\* the response numbered i of session id sid
ResponseOf(sid, i) == [from |-> "assistant", of |-> sid, id |-> i]

\* C1: within one session at most one action (agent.chat and the tool call it
\* drives) is in flight, so no two automation operations run concurrently
\* against the same driver.
C1_ActionsSerialized ==
  \A o \in DOMAIN objs : objs[o].inflight <= 1

\* C2: a message that arrives for a session whose isProcessing flag is true is
\* rejected: the agent is not invoked for it, so the number of running
\* agent.chat() calls of that session does not grow.
C2_BusyDispatchRejected ==
  [][\A o \in DOMAIN objs :
       objs[o].isProcessing => objs'[o].inflight <= objs[o].inflight]_vars

\* an agent of session id sid that is being initialized or is registered
LiveAgents(sid) ==
  {o \in DOMAIN objs :
     \/ sessions[sid] = o
     \/ \E k \in DOMAIN socks : socks[k].st = "init" /\ socks[k].agent = o /\ socks[k].sid = sid}

\* C3: a session id never has two agents created for it, also when a second
\* connection arrives while the first is still initializing its agent.
C3_OneAgentPerSession ==
  \A sid \in SessionIds : Cardinality(LiveAgents(sid)) <= 1

\* C4: when a socket attaches to an existing session, the session's socketId
\* becomes that socket, the queued pending messages are emitted to it in the
\* order they were appended, and the queue is empty afterwards.
C4_ResumeFlushesInOrder ==
  [][(/\ Len(socks') = Len(socks) + 1
      /\ socks'[Len(socks')].sid \in SessionIds
      /\ sessions[socks'[Len(socks')].sid] # NoObj) =>
       LET k == Len(socks')
           o == sessions[socks'[k].sid]
       IN /\ objs'[o].socketId = k
          /\ socks'[k].rx = objs[o].pendingMessages
          /\ objs'[o].pendingMessages = <<>>
          /\ sessions'[socks'[k].sid] = o
          /\ socketToSession'[k] = socks'[k].sid]_vars

\* a socket resumed the session and was sent its two queued responses in order
C4_Witness ==
  \E k \in DOMAIN socks :
    /\ Connected(k)
    /\ socks[k].flushed = 2
    /\ socks[k].rx = <<ResponseOf(socks[k].sid, 1), ResponseOf(socks[k].sid, 2)>>
    /\ sessions[socks[k].sid] # NoObj
    /\ objs[sessions[socks[k].sid]].socketId = k
    /\ objs[sessions[socks[k].sid]].pendingMessages = <<>>

\* C5: when the timer of a detach runs and the session has been attached again
\* in the meantime, nothing is evicted: the registry entry stays, the agent's
\* browser is not closed, and the session keeps its socket.
C5_NoEvictionAfterReattach ==
  [][\A k \in DOMAIN socks :
       (/\ TimerRuns(k)
        /\ TimerSession(k) # NoObj
        /\ objs[TimerSession(k)].socketId # NoSocket)
       => /\ sessions' = sessions
          /\ objs' = objs
          /\ socks'[k].timer = "fired"]_vars

\* the timer of the first socket has run, and the one session ever created is
\* still registered, with its browser open, attached to a connected socket
C5_Witness ==
  /\ Len(objs) = 1
  /\ \E k \in DOMAIN socks :
       /\ socks[k].timer = "fired"
       /\ TimerSession(k) = 1
       /\ objs[1].initialized
       /\ objs[1].socketId # k
       /\ Connected(objs[1].socketId)

\* C6: a timer evicts the session only when a full window has passed since the
\* last detach: no timer of a later detach of that session id is still
\* running when the session is evicted.
C6_EvictionAfterFullWindow ==
  [][\A k \in DOMAIN socks :
       (TimerRuns(k) /\ Abandoned(k)) =>
         \A j \in DOMAIN socks :
           (socks[j].sid = socks[k].sid /\ socks[j].timer = "armed") => socks[j].left = 0]_vars

\* C7: the idle-eviction timer never cleans up (closes the browser of, removes
\* the entry of) a session whose isProcessing flag is true.
C7_BusySessionNotEvicted ==
  [][\A k \in DOMAIN socks :
       (TimerRuns(k) /\ Abandoned(k)) => ~objs[TimerSession(k)].isProcessing]_vars

\* no timer callback has run yet: no registry entry has ever been removed
NothingEvicted == \A k \in DOMAIN socks : socks[k].timer \in {"none", "armed"}

\* C8: while a session exists (it is registered and no entry has ever been
\* evicted), every response produced for its id is, exactly once, either among
\* the messages emitted to its client or in its pending queue: none is lost,
\* none is emitted twice.
C8_ExactlyOnceDelivery ==
  \A sid \in SessionIds :
    (NothingEvicted /\ sessions[sid] # NoObj) =>
      \A i \in 1 .. (nextMsg[sid] - 1) :
        Occurrences(delivered[sid], ResponseOf(sid, i))
          + Occurrences(objs[sessions[sid]].pendingMessages, ResponseOf(sid, i)) = 1

\* C9: a book request without a time makes no browser interaction (no init,
\* login, navigation or click is performed for it) and returns a validation
\* error to the user.
C9_NoBrowserWithoutTime ==
  (tool.req.action = "book" /\ tool.req.time = NoTime) =>
     /\ tool.log = <<>>
     /\ tool.pc = "idle"
     /\ tool.result \in {"timeRequired", "dateError"}

\* C10: when bookCourt has returned true and the tool function has returned,
\* the browser is closed and initialized is false, and the calendar service
\* was called exactly once with the booked sport, date, time and companion.
C10_SuccessTearsDownAndSyncs ==
  (tool.pc = "idle" /\ tool.booked) =>
     /\ ~tool.initialized
     /\ tool.stagehand = "null"
     /\ Occurrences(tool.log, CalendarCall(tool.req)) = 1

\* the succeeded clicks of the driver call that are of one of the kinds
ClicksOf(kinds) == {i \in DOMAIN bot.clicks : bot.clicks[i].what \in kinds}

\* s begins with n digits, a colon and two digits
StartsWithToken(s, n) ==
  /\ Len(s) >= n + 3
  /\ \A i \in 1 .. n : s[i] \in Digits
  /\ s[n + 1] = ":"
  /\ s[n + 2] \in Digits
  /\ s[n + 3] \in Digits

\* the leading H:MM or HH:MM token of s, <<>> when s does not begin with one
LeadingToken(s) ==
  IF \E n \in {1, 2} : StartsWithToken(s, n)
  THEN SubSeq(s, 1, 3 + CHOOSE n \in {1, 2} : StartsWithToken(s, n))
  ELSE <<>>

\* C12: timeMatches(T, L) is true exactly when the leading H:MM / HH:MM tokens
\* of T and of L both exist and are character-identical; extractStartTime
\* returns that token, or nothing when the string does not begin with one.
C12_MatchIffSameStartToken ==
  cmp.done =>
    /\ extractStartTime(cmp.userTime) = LeadingToken(cmp.userTime)
    /\ extractStartTime(cmp.pageTime) = LeadingToken(cmp.pageTime)
    /\ cmp.result <=> (/\ LeadingToken(cmp.userTime) # <<>>
                       /\ LeadingToken(cmp.userTime) = LeadingToken(cmp.pageTime))

\* "1:11P" matched "1:11", and "1:11" did not match "11:11"
C12_Witness ==
  /\ cmp.done
  /\ \/ /\ cmp.userTime = <<"1", ":", "1", "1", "P">>
        /\ cmp.pageTime = <<"1", ":", "1", "1">>
        /\ cmp.result
     \/ /\ cmp.userTime = <<"1", ":", "1", "1">>
        /\ cmp.pageTime = <<"1", "1", ":", "1", "1">>
        /\ ~cmp.result

\* no slot label of the page begins with the start-time token of the request
NoLabelHasStart ==
  \A i \in DOMAIN bot.slots :
    ~(/\ LeadingToken(bot.time) # <<>>
      /\ LeadingToken(Trim(bot.slots[i])) = LeadingToken(bot.time))

\* C11: when no slot label has a start-time token identical to the requested
\* one, bookCourt clicks no slot element and makes no Next, companion or
\* confirmation click, and the result is the booking-failure outcome.
C11_NoClickWithoutMatch ==
  (bot.op = "book" /\ NoLabelHasStart) =>
     /\ bot.clicks = <<>>
     /\ bot.pc \in {"slots", "done"}
     /\ bot.pc = "done" => (~bot.ret /\ bot.result = "failed")

\* "2:30 PM" was requested on a page whose only label is "12:30 - 2:00 PM",
\* and the call has returned
C11_Witness ==
  /\ bot.op = "book"
  /\ bot.time = T230PM
  /\ bot.slots = <<L1230>>
  /\ bot.pc = "done"
  /\ bot.result = "failed"

\* the driver calls of the current request that are op
LogHas(t, op) == \E i \in DOMAIN t.log : t.log[i].op = op

\* C13: initialized becomes true only when login() succeeds after init() in
\* the same request; when init() or login() fails the flag stays false and the
\* tool returns the error without calling navigateToBooking; navigation is
\* called only on an initialized, logged-in session.
C13_ReadyOnlyAfterInitAndLogin ==
  [][/\ (~tool.initialized /\ tool'.initialized) =>
          /\ tool.pc = "login"
          /\ LogHas(tool, "init") /\ LogHas(tool, "login")
          /\ tool'.isLoggedIn /\ tool'.stagehand = "set"
     /\ (tool.pc \in {"init", "login"} /\ tool'.pc = "idle" /\ tool'.result = "error") =>
          /\ ~tool'.initialized
          /\ ~LogHas(tool', "navigateToBooking")
     /\ (~LogHas(tool, "navigateToBooking") /\ LogHas(tool', "navigateToBooking")) =>
          /\ tool'.initialized /\ tool'.isLoggedIn /\ tool'.stagehand = "set"]_vars

\* login() failed after init() succeeded: the request ended with the error
C13_Witness ==
  /\ tool.pc = "idle"
  /\ tool.result = "error"
  /\ tool.log = <<Call("init"), Call("login")>>
  /\ tool.stagehand = "set"
  /\ ~tool.initialized

\* the calls that are inside init() or login()
Initializing == {c \in Callers : calls[c] \in {"init", "login"}}

\* C14: in one initialized period init() and login() are each performed once:
\* no two calls are inside init() / login() together, and none is while the
\* session is initialized.
C14_InitAndLoginOncePerPeriod ==
  /\ Cardinality(Initializing) <= 1
  /\ tool.initialized => Initializing = {}

C16_CompanionBeforeConfirm ==
  bot.op = "book" =>
     /\ \A i \in ClicksOf({"confirm", "any"}) : \E j \in ClicksOf({"buddy"}) : j < i
     /\ ClicksOf({"buddy"}) = {} =>
          /\ bot.pc \notin {"confirm", "any"}
          /\ bot.pc = "done" => ~bot.ret

\* the slot was clicked, every companion strategy failed, and the call
\* returned false with buttons on the page left unclicked
C16_Witness ==
  /\ bot.op = "book"
  /\ bot.pc = "done"
  /\ ClicksOf({"slot"}) # {}
  /\ ClicksOf({"buddy"}) = {}
  /\ bot.i = BuddyStrategies
  /\ \E k \in DOMAIN bot.buttons : bot.buttons[k].visible /\ bot.buttons[k].confirms
  /\ ~bot.ret

\* C17: in one bookCourt call at most one slot element is clicked, the first
\* matching one whose click succeeds; the loop stops there, so later elements
\* with the same label are not clicked.
C17_AtMostOneSlotClick ==
  bot.op = "book" =>
     /\ Cardinality(ClicksOf({"slot"})) <= 1
     /\ \A k \in ClicksOf({"slot"}) :
          /\ bot.pc # "slots"
          /\ SlotMatches(bot, bot.clicks[k].at)
          /\ k = 1

\* two elements carry the requested label, the first was clicked and the call
\* went on to book
C17_Witness ==
  /\ bot.op = "book"
  /\ bot.pc = "done"
  /\ bot.ret
  /\ Len(bot.slots) = 2
  /\ SlotMatches(bot, 1) /\ SlotMatches(bot, 2)
  /\ bot.clicks[1] = [what |-> "slot", at |-> 1]

\* every strategy of the query ran and none gave an element (the first three
\* may also have failed inside their try blocks)
AllStrategiesEmpty ==
  /\ Len(bot.tried) = Methods
  /\ \A m \in 1 .. Methods - 1 : bot.tried[m] \in {"zero", "throws"}
  /\ bot.tried[Methods] = "zero"

\* C18: when all four enumeration strategies give zero elements,
\* getAvailableTimes returns the empty list and the tool's result is the
\* no-available-courts message, not an error.
C18_EmptyQueryIsNoCourts ==
  (bot.op = "query" /\ bot.pc = "done" /\ AllStrategiesEmpty) =>
     /\ bot.times = <<>>
     /\ bot.result = "noCourts"

\* the four strategies each found nothing and the call returned
C18_Witness ==
  /\ bot.op = "query"
  /\ bot.pc = "done"
  /\ bot.tried = <<"zero", "zero", "zero", "zero">>
  /\ bot.result = "noCourts"

\* the positions in the log of the current request where op was called
CallsOf(op) == {i \in DOMAIN tool.log : tool.log[i].op = op}

\* C19: addCourtBooking is called only in a book request, after bookCourt was
\* called and returned true in that request; while bookCourt has not returned,
\* and in a query or a request that returned false or failed earlier, the log
\* has no calendar call.
C19_CalendarOnlyAfterBooked ==
  /\ \A i \in CallsOf("addCourtBooking") :
       /\ tool.req.action = "book"
       /\ tool.booked
       /\ tool.pc # "bookCourt"
       /\ \E j \in CallsOf("bookCourt") : j < i
       /\ tool.log[i] = CalendarCall(tool.req)
  /\ (tool.pc = "idle" /\ tool.result \in {"failed", "timeRequired", "dateError",
                                            "noCourts", "times", "error"} /\ ~tool.booked)
        => CallsOf("addCourtBooking") = {}

\* bookCourt returned true, the browser was closed, and the calendar call is
\* in flight
C19_Witness ==
  /\ tool.pc = "calendar"
  /\ tool.booked
  /\ CallsOf("bookCourt") # {}
  /\ CallsOf("addCourtBooking") # {}

\* the strings the tool function returns
ResultStrings ==
  {"error", "dateError", "timeRequired", "noCourts", "times", "failed", "booked",
   "bookedAndSynced"}

\* C20: whatever driver step (init, login, navigation, enumeration, booking,
\* close) a request is awaiting and however that step settles, when the tool
\* function ends it has returned one of its strings, never a propagated
\* exception, and it made no further driver call after a failed step.
C20_FailuresBecomeStrings ==
  [][(tool.pc # "idle" /\ tool'.pc = "idle") =>
        /\ tool'.result \in ResultStrings
        /\ tool'.result = "error" => tool'.log = tool.log]_vars

\* the booking succeeded, bot.close() threw, and the request ended with the
\* error string
C20_Witness ==
  /\ tool.pc = "idle"
  /\ tool.result = "error"
  /\ tool.booked
  /\ tool.log # <<>>
  /\ tool.log[Len(tool.log)].op = "close"

\* the context this.stagehand drives is open
BrowserLive == bot.cur # 0 /\ bot.ctxs[bot.cur] = "open"

\* C21: a request whose ensureInitialized() has returned finds a live browser:
\* when the context died while the session was initialized, the call
\* recreates it (init + login) before the request navigates.
C21_DeadBrowserRecreated ==
  (bot.op = "browser" /\ bot.last = "ensured") => BrowserLive

\* the contexts the bot opened that are still open
OpenContexts == {i \in DOMAIN bot.ctxs : bot.ctxs[i] = "open"}

\* C25: once cleanup() (eviction, shutdown) or the closeBrowser() after a
\* booking has returned, no browser context the bot opened is still open,
\* including one opened by an init() whose login() failed.
C25_TeardownReleasesBrowsers ==
  (bot.op = "browser" /\ bot.last \in {"cleanup", "closeBrowser"}) => OpenContexts = {}

\* C27: a close() that returns on a driver with a handle closes the context it
\* drives and leaves no handle and isLoggedIn false; a close() on a driver
\* without a handle closes nothing and changes no field.
C27_CloseIdempotent ==
  [][(bot.op = "browser" /\ Len(bot'.closes) = Len(bot.closes) + 1) =>
        LET did == bot'.closes[Len(bot'.closes)]
        IN /\ tool.stagehand = "null" <=> did = "noop"
           /\ did = "closed" =>
                /\ tool'.stagehand = "null" /\ ~tool'.isLoggedIn /\ bot'.cur = 0
                /\ bot.cur # 0 => bot'.ctxs[bot.cur] = "closed"
           /\ did = "noop" =>
                /\ tool' = tool
                /\ bot'.ctxs = bot.ctxs /\ bot'.cur = bot.cur]_vars

\* the first call closed an open context, the second did nothing
C27_Witness ==
  /\ bot.op = "browser"
  /\ bot.closes = <<"closed", "noop">>
  /\ bot.ctxs # <<>>
  /\ bot.ctxs[Len(bot.ctxs)] = "closed"
  /\ tool.stagehand = "null"

\* C22: every navigateToBooking call that touches the page, whatever the call
\* before it did, first navigates to the dashboard URL; and a call that failed
\* on the page leaves the driver logged in and the session initialized.
C22_RestartsFromDashboard ==
  bot.op = "navigate" =>
     /\ bot.did # <<>> => bot.did[1] = "goto"
     /\ (bot.pc \notin {"idle", "done"} /\ bot.did = <<>>) => bot.pc = "goto"
     /\ bot.result = "navError" =>
          /\ tool.isLoggedIn /\ tool.initialized /\ tool.stagehand = "set"

\* the call before failed after some clicks, and this call has gone to the
\* dashboard and clicked again
C22_Witness ==
  /\ bot.op = "navigate"
  /\ bot.prev = "navError"
  /\ Len(bot.did) >= 2
  /\ bot.did[1] = "goto"

\* the steps of the chain that have no catch of their own
HardSteps == {Chain[i] : i \in 1 .. StepIndex("day") - 1}

\* C28: the structural steps of navigateToBooking happen in program order, each
\* only after every earlier one succeeded; when one of them times out the call
\* ends with the navigation error and no later step is performed.
C28_StrictSequence ==
  bot.op = "navigate" =>
     /\ \A i \in DOMAIN bot.did : bot.did[i] \in HardSteps => bot.did[i] = Chain[i]
     /\ \A i \in DOMAIN bot.did : bot.did[i] \in SoftSteps =>
          \A h \in HardSteps : \E j \in 1 .. i - 1 : bot.did[j] = h
     /\ bot.result = "navError" =>
          /\ bot.pc \in {"done", "idle"}
          /\ Len(bot.did) < Cardinality(HardSteps)
          /\ bot.did = SubSeq(Chain, 1, Len(bot.did))

\* the save click timed out after the venue was chosen: the call failed there
C28_Witness ==
  /\ bot.op = "navigate"
  /\ bot.pc = "done"
  /\ bot.result = "navError"
  /\ bot.did = <<"goto", "clubSelector", "gatewayClub">>

\* C30: once the structural steps are done, navigateToBooking cannot fail: a
\* failed day selection and the failure of all the hour-view selectors are
\* recorded, the call goes on and returns without raising.
C30_SoftStepsNonFatal ==
  (bot.op = "navigate" /\ \A h \in HardSteps : \E j \in DOMAIN bot.did : bot.did[j] = h) =>
     /\ bot.result # "navError"
     /\ bot.pc \in {"done", "idle"} =>
          /\ bot.result = "ok"
          /\ \A st \in SoftSteps :
               (\E j \in DOMAIN bot.did : bot.did[j] = st) \/ (\E j \in DOMAIN bot.soft : bot.soft[j] = st)

\* the day was not found, no hour-view selector could be clicked, and the call
\* returned
C30_Witness ==
  /\ bot.op = "navigate"
  /\ bot.pc = "done"
  /\ bot.soft = <<"day", "hourView">>
  /\ bot.result = "ok"

\* the elements of a list
Range(q) == {q[i] : i \in DOMAIN q}

\* C26: the de-duplication of the labels is idempotent: applied to its own
\* result it returns that result, which has every label of the list once.
C26_DedupeIdempotent ==
  (cmp.done /\ cmp.stage >= 1) =>
     /\ Range(cmp.out) = Range(cmp.xs)
     /\ Cardinality(Range(cmp.out)) = Len(cmp.out)
     /\ cmp.stage = 2 => cmp.again = cmp.out

\* a list with a label three times and another label between them was
\* de-duplicated twice
C26_Witness ==
  /\ cmp.done
  /\ cmp.stage = 2
  /\ Len(cmp.xs) = MaxTimes
  /\ Len(cmp.out) = 2
  /\ cmp.xs[1] = cmp.xs[2] /\ cmp.xs[3] # cmp.xs[1] /\ cmp.xs[4] = cmp.xs[1]
  /\ cmp.again = cmp.out

\* the strategies of the query that gave one element or more
Yielding == {k \in DOMAIN bot.tried : bot.tried[k] = "found"}

\* C29: the strategies of getAvailableTimes run in order; strategy k runs
\* exactly when every strategy before it gave no element (or threw), and the
\* elements used are those of the lowest strategy that gave one or more.
C29_FirstYieldingStrategy ==
  bot.op = "query" =>
     /\ \A k \in DOMAIN bot.tried :
          (bot.tried[k] # "skipped") <=>
             (\A j \in 1 .. k - 1 : bot.tried[j] \in {"zero", "throws"})
     /\ Cardinality(Yielding) <= 1
     /\ \A k \in Yielding :
          /\ bot.found # <<>>
          /\ bot.found = IF k = Methods THEN TimeDivs(bot.slots) ELSE bot.slots
     /\ Yielding = {} => bot.found = <<>>

\* the first strategy found nothing, the second threw, the third gave the
\* slot elements and the fourth was skipped
C29_Witness ==
  /\ bot.op = "query"
  /\ bot.pc = "done"
  /\ bot.tried = <<"zero", "throws", "found", "skipped">>
  /\ bot.found = bot.slots
  /\ bot.result = "times"

\* C23: the isProcessing flag of a session is true exactly in the states in
\* which an agent.chat() call of that session is running.
C23_BusyIffInFlight ==
  \A o \in DOMAIN objs : objs[o].isProcessing <=> objs[o].inflight > 0

\* session sid is in the registry and no connected socket authenticated with it
Detached(sid) ==
  /\ sessions[sid] # NoObj
  /\ \A k \in DOMAIN socks : socks[k].sid = sid => ~socks[k].connected

\* a socket of session sid is connected
Reattached(sid) == \E k \in DOMAIN socks : socks[k].sid = sid /\ socks[k].connected

\* C24: a session whose transport is gone is eventually removed from the
\* registry, unless a client comes back for it; also when the transport went
\* away while the agent was being initialized.
C24_DetachedEventuallyDestroyed ==
  \A sid \in SessionIds : Detached(sid) ~> (sessions[sid] = NoObj \/ Reattached(sid))

\* C31: a login whose form was submitted succeeds exactly when the URL read
\* after the wait is the dashboard, whether the wait timed out or not; when it
\* fails the error carries that URL and the driver is not logged in.
C31_LoginIffDashboard ==
  (bot.op = "login" /\ bot.pc = "done" /\ bot.result \in {"ok", "failed"}) =>
     /\ bot.result = "ok" <=> PathOf(bot.final) = HomePath \o DashPath
     /\ bot.result = "ok" => tool.isLoggedIn
     /\ bot.result = "failed" => (bot.err = bot.final /\ ~tool.isLoggedIn)

\* the buttons of the confirmation page that are visible and whose text has
\* confirm, book, submit or complete
Confirming == {k \in DOMAIN bot.buttons : bot.buttons[k].visible /\ bot.buttons[k].confirms}

\* C32: in the confirmation phase the visible confirming buttons are tried
\* first, in page order; a button of any kind is clicked only if the page has
\* no confirming button; and when no button is clicked the call returns false.
C32_FallbackOnlyIfNoneMatch ==
  bot.op = "book" =>
     /\ \A i \in ClicksOf({"confirm"}) :
          /\ bot.clicks[i].at \in Confirming
          /\ ClicksOf({"any"}) = {}
     /\ \A i \in ClicksOf({"any"}) : Confirming = {}
     /\ (bot.pc = "done" /\ ClicksOf({"confirm", "any"}) = {}) => ~bot.ret

\* the place of the first enumerated element whose trimmed text is t
FirstAt(ls, t) == CHOOSE i \in 1 .. Len(ls) : Trim(ls[i]) = t /\ \A j \in 1 .. i - 1 : Trim(ls[j]) # t

\* C33: every label getAvailableTimes returns contains a colon and AM or PM in
\* any case, is the trimmed text of an enumerated element, occurs once in the
\* result, and the labels are in the order of their first occurrence among the
\* enumerated elements.
C33_LabelsAreTimesOnceInOrder ==
  (bot.op = "query" /\ bot.pc = "done" /\ bot.result # "error") =>
     /\ \A i \in DOMAIN bot.times :
          /\ LooksLikeTime(bot.times[i])
          /\ \E j \in DOMAIN bot.found : Trim(bot.found[j]) = bot.times[i]
     /\ \A i, j \in DOMAIN bot.times : i < j =>
          /\ bot.times[i] # bot.times[j]
          /\ FirstAt(bot.found, bot.times[i]) < FirstAt(bot.found, bot.times[j])

\* two elements with the same time and one that is no time gave one label
C33_Witness ==
  /\ bot.op = "query"
  /\ bot.pc = "done"
  /\ Len(bot.found) = MaxSlots
  /\ \E i, j \in DOMAIN bot.found :
       /\ i < j
       /\ LooksLikeTime(Trim(bot.found[i]))
       /\ \/ Trim(bot.found[i]) = Trim(bot.found[j])
          \/ ~LooksLikeTime(Trim(bot.found[j]))
  /\ Len(bot.times) = 1

\* the calendar calls of the current request
CalendarCalls == {i \in DOMAIN tool.log : tool.log[i].op = "addCourtBooking"}

\* C34: the calendar call is made at most once for a request and only after a
\* confirmed booking; once bookCourt returned true and the teardown is over,
\* the tool returns the booking-success message whether the calendar call
\* returned true, returned false or the calendar is unavailable.
C34_CalendarNeverChangesResult ==
  /\ Cardinality(CalendarCalls) <= 1
  /\ CalendarCalls # {} => tool.booked
  /\ tool.pc = "calendar" => tool.booked /\ CalendarCalls # {}
  /\ (tool.pc = "idle" /\ tool.booked /\ (CalendarCalls # {} \/ ~tool.initialized)) =>
        /\ tool.result \in {"booked", "bookedAndSynced"}
        /\ tool.result = "bookedAndSynced" => CalendarCalls # {}
        /\ ~tool.calendarInitialized => CalendarCalls = {}

\* the calendar call returned false after a confirmed booking
C34_Witness ==
  /\ tool.pc = "idle"
  /\ tool.booked
  /\ CalendarCalls # {}
  /\ tool.result = "booked"

\* the step accepts a connection that cannot create a session: it carries no
\* session id, or its session does not exist and a credential is missing
RejectedConnection ==
  /\ Len(socks') = Len(socks) + 1
  /\ \/ socks'[Len(socks')].sid = NoSession
     \/ ~HasCredentials(env) /\ sessions[socks'[Len(socks')].sid] = NoObj

\* C35: a connection that cannot create a session (no session id, or missing
\* credentials) is answered with an error in the same step and changes no
\* registry state: no session entry, no socket-to-session mapping, no agent.
C35_RejectedConnectionChangesNothing ==
  [][RejectedConnection =>
       /\ socks'[Len(socks')].rx \in {<<NoIdError>>, <<CredentialsError>>}
       /\ socks'[Len(socks')].agent = NoObj
       /\ sessions' = sessions
       /\ socketToSession' = socketToSession
       /\ objs' = objs]_vars

\* one connection was refused for its missing session id and one for the
\* missing credentials, and the registry is empty
C35_Witness ==
  /\ \E k \in DOMAIN socks : socks[k].sid = NoSession /\ socks[k].rx = <<NoIdError>>
  /\ \E k \in DOMAIN socks : socks[k].sid \in SessionIds /\ socks[k].rx = <<CredentialsError>>
  /\ objs = <<>>
  /\ \A sid \in SessionIds : sessions[sid] = NoObj
  /\ \A k \in Sockets : socketToSession[k] = NoSession

\* C36: a socket is only ever sent chat responses of the session it
\* authenticated with, also in answer to its get_pending request.
C36_PendingOnlyToOwnSession ==
  \A k \in DOMAIN socks : \A i \in DOMAIN socks[k].rx :
     socks[k].rx[i].from = "assistant" => socks[k].rx[i].of = socks[k].sid

\* C37: every socket id in socketToSession maps to a session id that exists in
\* sessions and whose socketId is that socket.
C37_RegistryMapsConsistent ==
  \A k \in Sockets :
     socketToSession[k] # NoSession =>
        /\ sessions[socketToSession[k]] # NoObj
        /\ objs[sessions[socketToSession[k]]].socketId = k

\* the client behind socket k is connected and shows the status the server
\* sent it for an action in flight
ShowsProcessing(k) == Connected(k) /\ socks[k].status = Processing

\* the client behind socket k shows 'Ready', or its socket is closed
ReadyOrGone(k) == k \in DOMAIN socks /\ (~socks[k].connected \/ socks[k].status = Ready)

\* C39: a client that reconnected while its session's action was in flight
\* (its status line says so) gets back to the status 'Ready', the only one
\* under which the message input is enabled, unless it disconnects first.
C39_ReconnectedClientReadyAgain ==
  \A k \in Sockets : ShowsProcessing(k) ~> ReadyOrGone(k)

\* C38: whenever bookCourt returned true, the string the tool function returns
\* for that request is the booking-success message, whatever happens in the
\* teardown and calendar steps after it.
C38_BookedMeansSuccessMessage ==
  (tool.pc = "idle" /\ tool.booked) => tool.result \in {"booked", "bookedAndSynced"}

\* the driver steps that act on the page
PageSteps == {"navigateToBooking", "getAvailableTimes", "bookCourt"}

\* C40: the request that follows a booking which closed the browser performs
\* init() and then login() before any navigation, enumeration or booking
\* step, and no such step is ever in flight on a driver without a browser
\* handle or not logged in.
C40_ReinitializedAfterBooking ==
  /\ tool.afterBooking =>
        /\ tool.log # <<>> /\ tool.log[1] = Call("init")
        /\ \A i \in DOMAIN tool.log :
             tool.log[i].op \in PageSteps => (i > 2 /\ tool.log[2] = Call("login"))
  /\ tool.pc \in {"navigate", "getTimes", "bookCourt"} =>
        /\ tool.stagehand = "set" /\ tool.isLoggedIn /\ tool.initialized
        /\ tool.log[Len(tool.log)].op \in PageSteps

\* the request after a booking has opened the browser and logged in again and
\* is now booking
C40_Witness ==
  /\ tool.afterBooking
  /\ tool.pc = "bookCourt"
  /\ tool.log = <<Call("init"), Call("login"), Call("navigateToBooking"), Call("bookCourt")>>
====
